---- MODULE Spec2Model ----
(***************************************************************************)
(* Model of the BizTradeHub valuation endpoint: the three handler variants *)
(* src/api/valuation.js, src/unnamed/part_000 and src/unnamed/part_001,    *)
(* with the JavaScript value semantics their control flow depends on.      *)
(*                                                                         *)
(* A text is a sequence of symbols.  A symbol is one character wherever    *)
(* the code inspects characters (toLowerCase, trim, the regular            *)
(* expressions, number formatting); a fixed literal that the code only     *)
(* copies into its output is written as one symbol.                        *)
(***************************************************************************)
EXTENDS Integers, Sequences, FiniteSets, TLC

VARIABLES
    variant,      \* which of the three handler sources serves the request
    req,          \* the request: its method and its parsed body
    pc,           \* where the handler is: "start", "awaitModel", "awaitEmail", "returned"
    responses,    \* the HTTP responses sent, in order
    modelCalls,   \* the arguments of each client.chat.completions.create call
    emailCalls,   \* the arguments of each resend.emails.send call
    logs,         \* the console.error lines
    modelResult,  \* how the model call settled
    emailResult,  \* how the email call settled
    inflight,     \* the requests in flight together, each with its own state
    fin,          \* the argument of a function applied on its own
    fout          \* its outcome

hvars ==
    <<variant, req, pc, responses, modelCalls, emailCalls, logs, modelResult, emailResult,
      inflight>>

vars == <<hvars, fin, fout>>

(***************************************************************************)
(* JavaScript values.                                                      *)
(***************************************************************************)
Undef == [t |-> "undefined"]

Null == [t |-> "null"]

Str(s) == [t |-> "string", s |-> s]

\* A string holding JSON text, its characters grouped into the tokens of the
\* JSON grammar: the content of a chat completion message.
JsonText(tokens) == [t |-> "string", json |-> tokens]

\* A finite number, held in tenths: Num(15) is 1.5.
Num(n) == [t |-> "number", k |-> "finite", n |-> n]

NaN == [t |-> "number", k |-> "NaN"]

PosInf == [t |-> "number", k |-> "+Infinity"]

NegInf == [t |-> "number", k |-> "-Infinity"]

Bool(b) == [t |-> "boolean", b |-> b]

Arr(a) == [t |-> "array", a |-> a]

\* An object is a function from its own property names to values.  A property
\* name is a text; the names the code uses are written as one symbol.
Obj(o) == [t |-> "object", o |-> o]

Key(name) == <<name>>

EmptyObj == Obj([k \in {} |-> Undef])

\* The outcome of an evaluation: a value, or a thrown exception.
Ok(v) == [ok |-> TRUE, v |-> v]

Throw == [ok |-> FALSE]

\* F applied to the value of e: e is evaluated once, however often F uses it.
Bind(e, F(_)) == CHOOSE r \in {F(x) : x \in {e}} : TRUE

\* ToBoolean.
Truthy(v) ==
    CASE v.t = "undefined" -> FALSE
      [] v.t = "null" -> FALSE
      [] v.t = "string" -> IF "json" \in DOMAIN v THEN v.json # <<>> ELSE v.s # <<>>
      [] v.t = "number" -> v.k # "NaN" /\ (v.k = "finite" => v.n # 0)
      [] v.t = "boolean" -> v.b
      [] OTHER -> TRUE

\* obj.key and the destructuring { key } = obj, for obj not null or undefined:
\* only objects parsed from JSON have own properties of these names.
Get(obj, key) ==
    IF obj.t = "object" /\ Key(key) \in DOMAIN obj.o THEN obj.o[Key(key)] ELSE Undef

\* a || b with the right operand forgotten: the value stays as it is.
NoDefault(a, b) == a

\* a || b
OrElse(a, b) == IF Truthy(a) THEN a ELSE b

(***************************************************************************)
(* Texts.                                                                  *)
(***************************************************************************)
UpperLetters ==
    <<"A", "B", "C", "D", "E", "F", "G", "H", "I", "J", "K", "L", "M",
      "N", "O", "P", "Q", "R", "S", "T", "U", "V", "W", "X", "Y", "Z">>

LowerLetters ==
    <<"a", "b", "c", "d", "e", "f", "g", "h", "i", "j", "k", "l", "m",
      "n", "o", "p", "q", "r", "s", "t", "u", "v", "w", "x", "y", "z">>

DigitSyms == <<"0", "1", "2", "3", "4", "5", "6", "7", "8", "9">>

Range(f) == {f[i] : i \in DOMAIN f}

\* The characters \s matches and trim() strips (those of the modelled alphabet).
WhiteSpace == {" ", "\t", "\n", "\r"}

\* The characters \w matches: the other side of a \b word boundary.
WordChars == Range(UpperLetters) \cup Range(LowerLetters) \cup Range(DigitSyms) \cup {"_"}

LowerChar(c) ==
    IF c \in Range(UpperLetters)
    THEN LowerLetters[CHOOSE i \in 1..26 : UpperLetters[i] = c]
    ELSE c

UpperChar(c) ==
    IF c \in Range(LowerLetters)
    THEN UpperLetters[CHOOSE i \in 1..26 : LowerLetters[i] = c]
    ELSE c

\* String.prototype.toLowerCase
ToLowerCase(s) == [i \in 1..Len(s) |-> LowerChar(s[i])]

ToUpperCase(s) == [i \in 1..Len(s) |-> UpperChar(s[i])]

\* String.prototype.trim
Trim(s) ==
    LET keep == {i \in 1..Len(s) : s[i] \notin WhiteSpace} IN
    IF keep = {} THEN <<>>
    ELSE LET lo == CHOOSE i \in keep : \A j \in keep : i <= j
             hi == CHOOSE i \in keep : \A j \in keep : j <= i
         IN  SubSeq(s, lo, hi)

\* s.replace(/\n/g, "<br>")
BrMarkup(s) == [i \in 1..Len(s) |-> IF s[i] = "\n" THEN "<br>" ELSE s[i]]

RECURSIVE Digits(_)
\* The decimal digits of a natural number.
Digits(k) ==
    IF k < 10 THEN <<DigitSyms[k + 1]>>
    ELSE Digits(k \div 10) \o <<DigitSyms[(k % 10) + 1]>>

Abs(n) == IF n < 0 THEN -n ELSE n

\* Number::toString of a finite number held in tenths.
NumToText(n) ==
    (IF n < 0 THEN <<"-">> ELSE <<>>)
        \o Digits(Abs(n) \div 10)
        \o (IF Abs(n) % 10 # 0 THEN <<".", DigitSyms[(Abs(n) % 10) + 1]>> ELSE <<>>)

T_undefined == <<"u", "n", "d", "e", "f", "i", "n", "e", "d">>

T_null == <<"n", "u", "l", "l">>

T_true == <<"t", "r", "u", "e">>

T_false == <<"f", "a", "l", "s", "e">>

T_NaN == <<"N", "a", "N">>

T_Infinity == <<"I", "n", "f", "i", "n", "i", "t", "y">>

T_objectObject ==
    <<"[", "o", "b", "j", "e", "c", "t", " ", "O", "b", "j", "e", "c", "t", "]">>

RECURSIVE ToStringJS(_)
RECURSIVE JoinJS(_)
\* Array.prototype.join(","): undefined and null elements give the empty text.
JoinJS(a) ==
    IF a = <<>> THEN Ok(<<>>)
    ELSE Bind(<<IF Head(a).t \in {"undefined", "null"} THEN Ok(<<>>)
                ELSE ToStringJS(Head(a)),
                JoinJS(Tail(a))>>,
              LAMBDA hr :
                IF ~hr[1].ok \/ ~hr[2].ok THEN Throw
                ELSE IF Len(a) = 1 THEN hr[1]
                ELSE Ok(hr[1].v \o <<",">> \o hr[2].v))

\* ToString, as a template literal ${v} applies it.  An object parsed from JSON
\* whose own "toString" property shadows Object.prototype.toString has no
\* callable conversion left (valueOf returns the object): TypeError.
ToStringJS(v) ==
    CASE v.t = "undefined" -> Ok(T_undefined)
      [] v.t = "null" -> Ok(T_null)
      [] v.t = "string" -> Ok(v.s)
      [] v.t = "boolean" -> Ok(IF v.b THEN T_true ELSE T_false)
      [] v.t = "number" ->
            Ok(CASE v.k = "finite" -> NumToText(v.n)
                 [] v.k = "NaN" -> T_NaN
                 [] v.k = "+Infinity" -> T_Infinity
                 [] v.k = "-Infinity" -> <<"-">> \o T_Infinity)
      [] v.t = "array" -> JoinJS(v.a)
      [] v.t = "object" ->
            IF Key("toString") \in DOMAIN v.o THEN Throw ELSE Ok(T_objectObject)

(***************************************************************************)
(* Category inference: inferCategory and the regular expressions it tests. *)
(* A regular expression is a sequence of alternatives; an alternative is a *)
(* sequence of elements [cs, q]: a character of cs, taken once ("1"),      *)
(* optionally ("?") or any number of times ("*").  In the source, \b       *)
(* stands before the first alternative only: /\bcafe|coffee/ is            *)
(* (\bcafe)|(coffee).                                                      *)
(***************************************************************************)
Lit(s) == [i \in 1..Len(s) |-> [cs |-> {s[i]}, q |-> "1"]]

Rule_cafe ==
    [cat |-> <<"c", "a", "f", "e">>,
     alts |-> << [wb |-> TRUE, pat |-> Lit(<<"c", "a", "f", "e">>)],
               [wb |-> FALSE, pat |-> Lit(<<"c", "o", "f", "f", "e", "e">>)],
               [wb |-> FALSE, pat |-> Lit(<<"e", "s", "p", "r", "e", "s", "s", "o">>)],
               [wb |-> FALSE, pat |-> Lit(<<"c", "o", "f", "f", "e", "e", " ", "s", "h", "o", "p">>)] >>]
Rule_restaurant ==
    [cat |-> <<"r", "e", "s", "t", "a", "u", "r", "a", "n", "t">>,
     alts |-> << [wb |-> TRUE, pat |-> Lit(<<"r", "e", "s", "t", "a", "u", "r", "a", "n", "t">>)],
               [wb |-> FALSE, pat |-> Lit(<<"b", "i", "s", "t", "r", "o">>)],
               [wb |-> FALSE, pat |-> Lit(<<"t", "a", "k", "e", "a", "w", "a", "y">>)],
               [wb |-> FALSE, pat |-> Lit(<<"t", "a", "k", "e", "-", "a", "w", "a", "y">>)],
               [wb |-> FALSE, pat |-> Lit(<<"f", "o", "o", "d", " ", "t", "r", "u", "c", "k">>)],
               [wb |-> FALSE, pat |-> Lit(<<"b", "u", "r", "g", "e", "r">>)],
               [wb |-> FALSE, pat |-> Lit(<<"p", "i", "z", "z", "a">>)] >>]
Rule_retail ==
    [cat |-> <<"r", "e", "t", "a", "i", "l">>,
     alts |-> << [wb |-> TRUE, pat |-> Lit(<<"r", "e", "t", "a", "i", "l">>)],
               [wb |-> FALSE, pat |-> Lit(<<"s", "h", "o", "p">>)],
               [wb |-> FALSE, pat |-> Lit(<<"s", "t", "o", "r", "e">>)],
               [wb |-> FALSE, pat |-> Lit(<<"b", "o", "u", "t", "i", "q", "u", "e">>)],
               [wb |-> FALSE, pat |-> Lit(<<"f", "l", "o", "r", "i", "s", "t">>)],
               [wb |-> FALSE, pat |-> Lit(<<"g", "r", "o", "c", "e", "r", "y">>)],
               [wb |-> FALSE, pat |-> Lit(<<"s", "u", "p", "e", "r", "m", "a", "r", "k", "e", "t">>)] >>]
Rule_beauty ==
    [cat |-> <<"b", "e", "a", "u", "t", "y">>,
     alts |-> << [wb |-> TRUE, pat |-> Lit(<<"s", "a", "l", "o", "n">>)],
               [wb |-> FALSE, pat |-> Lit(<<"b", "a", "r", "b", "e", "r">>)],
               [wb |-> FALSE, pat |-> Lit(<<"s", "p", "a">>)],
               [wb |-> FALSE, pat |-> Lit(<<"b", "e", "a", "u", "t", "y">>)],
               [wb |-> FALSE, pat |-> Lit(<<"n", "a", "i", "l">>)] >>]
Rule_fitness ==
    [cat |-> <<"f", "i", "t", "n", "e", "s", "s">>,
     alts |-> << [wb |-> TRUE, pat |-> Lit(<<"g", "y", "m">>)],
               [wb |-> FALSE, pat |-> Lit(<<"f", "i", "t", "n", "e", "s", "s">>)],
               [wb |-> FALSE, pat |-> Lit(<<"p", "i", "l", "a", "t", "e", "s">>)],
               [wb |-> FALSE, pat |-> Lit(<<"y", "o", "g", "a">>)],
               [wb |-> FALSE, pat |-> Lit(<<"p", "e", "r", "s", "o", "n", "a", "l", " ", "t", "r", "a", "i", "n", "i", "n", "g">>)] >>]
Rule_healthcare ==
    [cat |-> <<"h", "e", "a", "l", "t", "h", "c", "a", "r", "e">>,
     alts |-> << [wb |-> TRUE, pat |-> Lit(<<"c", "l", "i", "n", "i", "c">>)],
               [wb |-> FALSE, pat |-> Lit(<<"m", "e", "d", "i", "c", "a", "l">>)],
               [wb |-> FALSE, pat |-> Lit(<<"d", "e", "n", "t", "a", "l">>)],
               [wb |-> FALSE, pat |-> Lit(<<"d", "e", "n", "t", "i", "s", "t">>)],
               [wb |-> FALSE, pat |-> Lit(<<"p", "h", "y", "s", "i", "o">>)],
               [wb |-> FALSE, pat |-> Lit(<<"c", "h", "i", "r", "o">>)],
               [wb |-> FALSE, pat |-> Lit(<<"p", "h", "a", "r", "m", "a", "c", "y">>)] >>]
Rule_automotive ==
    [cat |-> <<"a", "u", "t", "o", "m", "o", "t", "i", "v", "e">>,
     alts |-> << [wb |-> TRUE, pat |-> Lit(<<"a", "u", "t", "o">>)],
               [wb |-> FALSE, pat |-> Lit(<<"m", "e", "c", "h", "a", "n", "i", "c">>)],
               [wb |-> FALSE, pat |-> Lit(<<"p", "a", "n", "e", "l", " ", "b", "e", "a", "t">>)],
               [wb |-> FALSE, pat |-> Lit(<<"c", "a", "r", " ", "w", "a", "s", "h">>)],
               [wb |-> FALSE, pat |-> Lit(<<"d", "e", "t", "a", "i", "l", "i", "n", "g">>)],
               [wb |-> FALSE, pat |-> Lit(<<"t", "y", "r", "e">>)] >>]
Rule_trades ==
    [cat |-> <<"t", "r", "a", "d", "e", "s">>,
     alts |-> << [wb |-> TRUE, pat |-> Lit(<<"p", "l", "u", "m", "b">>)],
               [wb |-> FALSE, pat |-> Lit(<<"e", "l", "e", "c", "t", "r", "i", "c">>)],
               [wb |-> FALSE, pat |-> Lit(<<"a", "i", "r">>) \o <<[cs |-> {"-", " "}, q |-> "?"]>> \o Lit(<<"c", "o", "n">>)],
               [wb |-> FALSE, pat |-> Lit(<<"h", "v", "a", "c">>)],
               [wb |-> FALSE, pat |-> Lit(<<"c", "o", "n", "s", "t", "r", "u", "c", "t", "i", "o", "n">>)],
               [wb |-> FALSE, pat |-> Lit(<<"b", "u", "i", "l", "d", "e", "r">>)],
               [wb |-> FALSE, pat |-> Lit(<<"t", "r", "a", "d", "e">>)] >>]
Rule_online ==
    [cat |-> <<"o", "n", "l", "i", "n", "e">>,
     alts |-> << [wb |-> TRUE, pat |-> Lit(<<"o", "n", "l", "i", "n", "e">>)],
               [wb |-> FALSE, pat |-> Lit(<<"e">>) \o <<[cs |-> {"-", " "}, q |-> "?"]>> \o Lit(<<"c", "o", "m", "m", "e", "r", "c", "e">>)],
               [wb |-> FALSE, pat |-> Lit(<<"s", "t", "o", "r", "e">>) \o <<[cs |-> WhiteSpace, q |-> "*"]>> \o Lit(<<"o", "n", "l", "i", "n", "e">>)],
               [wb |-> FALSE, pat |-> Lit(<<"d", "r", "o", "p", "s", "h", "i", "p">>)],
               [wb |-> FALSE, pat |-> Lit(<<"s", "a", "a", "s">>)],
               [wb |-> FALSE, pat |-> Lit(<<"s", "o", "f", "t", "w", "a", "r", "e">>)] >>]
Rule_services ==
    [cat |-> <<"s", "e", "r", "v", "i", "c", "e", "s">>,
     alts |-> << [wb |-> TRUE, pat |-> Lit(<<"o", "f", "f", "i", "c", "e">>)],
               [wb |-> FALSE, pat |-> Lit(<<"c", "o", "n", "s", "u", "l", "t">>)],
               [wb |-> FALSE, pat |-> Lit(<<"a", "c", "c", "o", "u", "n", "t", "a", "n", "t">>)],
               [wb |-> FALSE, pat |-> Lit(<<"l", "a", "w">>)],
               [wb |-> FALSE, pat |-> Lit(<<"l", "e", "g", "a", "l">>)],
               [wb |-> FALSE, pat |-> Lit(<<"a", "g", "e", "n", "c", "y">>)],
               [wb |-> FALSE, pat |-> Lit(<<"m", "a", "r", "k", "e", "t", "i", "n", "g">>)],
               [wb |-> FALSE, pat |-> Lit(<<"d", "e", "s", "i", "g", "n">>)] >>]

\* The tests of inferCategory, in source order.
Rules ==
    <<Rule_cafe, Rule_restaurant, Rule_retail, Rule_beauty, Rule_fitness,
      Rule_healthcare, Rule_automotive, Rule_trades, Rule_online, Rule_services>>

Cat_generic == <<"g", "e", "n", "e", "r", "i", "c">>

RECURSIVE MatchHere(_, _, _)
\* Whether pattern pat matches s at position i (some way of taking the
\* optional and repeated elements succeeds).
MatchHere(pat, s, i) ==
    IF pat = <<>> THEN TRUE
    ELSE LET e == Head(pat)
             hit == i <= Len(s) /\ s[i] \in e.cs
         IN  CASE e.q = "1" -> hit /\ MatchHere(Tail(pat), s, i + 1)
               [] e.q = "?" -> (hit /\ MatchHere(Tail(pat), s, i + 1))
                                  \/ MatchHere(Tail(pat), s, i)
               [] e.q = "*" -> (hit /\ MatchHere(pat, s, i + 1))
                                  \/ MatchHere(Tail(pat), s, i)

IsWordAt(s, i) == i >= 1 /\ i <= Len(s) /\ s[i] \in WordChars

\* \b between s[i-1] and s[i].
WordBoundary(s, i) == IsWordAt(s, i - 1) # IsWordAt(s, i)

AltMatches(alt, s) ==
    \E i \in 1..(Len(s) + 1) :
        /\ alt.wb => WordBoundary(s, i)
        /\ MatchHere(alt.pat, s, i)

\* s.match(re) is truthy
RuleMatches(rule, s) == \E k \in DOMAIN rule.alts : AltMatches(rule.alts[k], s)

\* The return of inferCategory for the lower-cased text s.
FirstMatch(s) ==
    Bind({r \in DOMAIN Rules : RuleMatches(Rules[r], s)}, LAMBDA hits :
        IF hits = {} THEN Cat_generic
        ELSE Rules[CHOOSE r \in hits : \A r2 \in hits : r <= r2].cat)

\* inferCategory(businessTypeRaw) without the default value of its
\* parameter: undefined has no toLowerCase method.
inferCategoryNoDefault(businessTypeRaw) ==
    IF businessTypeRaw.t # "string" THEN Throw
    ELSE Bind(ToLowerCase(businessTypeRaw.s), LAMBDA s : Ok(Str(FirstMatch(s))))

\* inferCategory(businessTypeRaw = ""): the default replaces undefined only;
\* a value without a toLowerCase method throws a TypeError.
inferCategory(businessTypeRaw) ==
    LET arg == IF businessTypeRaw.t = "undefined" THEN Str(<<>>) ELSE businessTypeRaw IN
    IF arg.t # "string" THEN Throw
    ELSE Bind(ToLowerCase(arg.s), LAMBDA s : Ok(Str(FirstMatch(s))))

(***************************************************************************)
(* Numbers: ToNumber, isNaN, Math.round, toLocaleString("en-AU"),          *)
(* formatAUD.  A finite number is held in tenths, rounded down: the first  *)
(* decimal decides Math.round, which rounds a half up.                     *)
(***************************************************************************)
DigitVal(c) == (CHOOSE i \in 1..10 : DigitSyms[i] = c) - 1

IsDigits(s) == s # <<>> /\ \A i \in 1..Len(s) : s[i] \in Range(DigitSyms)

RECURSIVE NatOf(_)
\* The natural number a digit sequence denotes.
NatOf(s) ==
    IF s = <<>> THEN 0
    ELSE 10 * NatOf(SubSeq(s, 1, Len(s) - 1)) + DigitVal(s[Len(s)])

\* The unsigned decimal literals of StringToNumber: digits, digits., digits.digits
\* and .digits (no exponent, no radix prefix: none occurs in the modelled texts).
UnsignedTenths(u) ==
    LET dots == {i \in 1..Len(u) : u[i] = "."} IN
    IF dots = {} THEN
        IF IsDigits(u) THEN Ok(10 * NatOf(u)) ELSE Throw
    ELSE LET d == CHOOSE i \in dots : \A j \in dots : i <= j
             ip == SubSeq(u, 1, d - 1)
             fp == SubSeq(u, d + 1, Len(u))
         IN  IF /\ (ip = <<>> \/ IsDigits(ip))
                /\ (fp = <<>> \/ IsDigits(fp))
                /\ ~(ip = <<>> /\ fp = <<>>)
             THEN Ok(10 * NatOf(ip) + (IF fp = <<>> THEN 0 ELSE DigitVal(fp[1])))
             ELSE Throw

\* Whether a decimal literal has a digit other than 0 after its first decimal:
\* the tenths of its negation are then one less.
FurtherDecimals(u) ==
    \E d \in 1..Len(u) : u[d] = "." /\ \E i \in (d + 2)..Len(u) : u[i] # "0"

\* StringToNumber: white space trimmed, the empty text is 0, an optional sign.
StringToNumber(s) ==
    LET t == Trim(s)
        neg == t # <<>> /\ t[1] = "-"
        signed == t # <<>> /\ t[1] \in {"-", "+"}
        u == IF signed THEN Tail(t) ELSE t
    IN  IF t = <<>> THEN Num(0)
        ELSE IF u = T_Infinity THEN (IF neg THEN NegInf ELSE PosInf)
        ELSE LET r == UnsignedTenths(u) IN
             IF ~r.ok THEN NaN
             ELSE Num(IF neg THEN -r.v - (IF FurtherDecimals(u) THEN 1 ELSE 0) ELSE r.v)

\* ToNumber.  An array or object goes through ToPrimitive (hint number):
\* valueOf returns the object itself, so toString decides.
ToNumberJS(v) ==
    CASE v.t = "undefined" -> Ok(NaN)
      [] v.t = "null" -> Ok(Num(0))
      [] v.t = "boolean" -> Ok(Num(IF v.b THEN 10 ELSE 0))
      [] v.t = "number" -> Ok(v)
      [] v.t = "string" -> Ok(StringToNumber(v.s))
      [] OTHER -> LET p == ToStringJS(v) IN
                  IF p.ok THEN Ok(StringToNumber(p.v)) ELSE Throw

\* Math.round of a number held in tenths; sign keeps the sign of -0.
MathRound(n) == [int |-> (n + 5) \div 10, negZero |-> n < 0 /\ n >= -5]

RECURSIVE Grouped(_)
\* Digits in groups of three, separated by commas.
Grouped(ds) ==
    IF Len(ds) <= 3 THEN ds
    ELSE Grouped(SubSeq(ds, 1, Len(ds) - 3)) \o <<",">> \o SubSeq(ds, Len(ds) - 2, Len(ds))

\* Math.round(x).toLocaleString("en-AU"); "<U+221E>" is the infinity sign.
RoundedLocale(x) ==
    CASE x.k = "+Infinity" -> <<"<U+221E>">>
      [] x.k = "-Infinity" -> <<"-", "<U+221E>">>
      [] x.k = "NaN" -> T_NaN
      [] x.k = "finite" ->
            LET r == MathRound(x.n) IN
            (IF r.int < 0 \/ r.negZero THEN <<"-">> ELSE <<>>) \o Grouped(Digits(Abs(r.int)))

\* formatAUD(value)
formatAUD(value) ==
    IF value.t \in {"undefined", "null"} THEN Ok(<<"-">>)
    ELSE LET n == ToNumberJS(value) IN
         IF ~n.ok THEN Throw
         ELSE IF n.v.k = "NaN" THEN Ok(<<"-">>)
         ELSE Ok(RoundedLocale(n.v))

(***************************************************************************)
(* JSON.parse, on a text given as its sequence of tokens: the punctuators  *)
(* { } [ ] , : and the string, number and bare-word literals.              *)
(***************************************************************************)
TPunct(c) == [k |-> "punct", c |-> c]

TString(s) == [k |-> "string", s |-> s]

TNumber(v) == [k |-> "number", v |-> v]

TWord(w) == [k |-> "word", w |-> w]

IsPunct(ts, c) == ts # <<>> /\ Head(ts) = TPunct(c)

Parsed(v, rest) == [ok |-> TRUE, v |-> v, rest |-> rest]

SyntaxError == [ok |-> FALSE]

RECURSIVE ParseValue(_)
RECURSIVE ParseElements(_, _)
RECURSIVE ParseMembers(_, _)
\* The elements of an array after "[" or ",": a value, then "," or "]".
ParseElements(ts, acc) ==
    Bind(ParseValue(ts), LAMBDA e :
        IF ~e.ok THEN SyntaxError
        ELSE Bind(Append(acc, e.v), LAMBDA a :
                IF IsPunct(e.rest, "]") THEN Parsed(Arr(a), Tail(e.rest))
                ELSE IF IsPunct(e.rest, ",") THEN ParseElements(Tail(e.rest), a)
                ELSE SyntaxError))

\* The members of an object after "{" or ",": a string, ":", a value, then ","
\* or "}".  A repeated key keeps its last value.
ParseMembers(ts, acc) ==
    IF ts = <<>> \/ Head(ts).k # "string" \/ ~IsPunct(Tail(ts), ":") THEN SyntaxError
    ELSE Bind(ParseValue(Tail(Tail(ts))), LAMBDA e :
            IF ~e.ok THEN SyntaxError
            ELSE Bind([x \in DOMAIN acc \cup {Head(ts).s} |->
                          IF x = Head(ts).s THEN e.v ELSE acc[x]],
                      LAMBDA o :
                        IF IsPunct(e.rest, "}") THEN Parsed(Obj(o), Tail(e.rest))
                        ELSE IF IsPunct(e.rest, ",") THEN ParseMembers(Tail(e.rest), o)
                        ELSE SyntaxError))

ParseValue(ts) ==
    IF ts = <<>> THEN SyntaxError
    ELSE LET h == Head(ts) IN
         CASE h.k = "string" -> Parsed(Str(h.s), Tail(ts))
           [] h.k = "number" -> Parsed(h.v, Tail(ts))
           [] h.k = "word" ->
                CASE h.w = "true" -> Parsed(Bool(TRUE), Tail(ts))
                  [] h.w = "false" -> Parsed(Bool(FALSE), Tail(ts))
                  [] h.w = "null" -> Parsed(Null, Tail(ts))
                  [] OTHER -> SyntaxError
           [] h.k = "punct" ->
                CASE h.c = "[" ->
                        IF IsPunct(Tail(ts), "]") THEN Parsed(Arr(<<>>), Tail(Tail(ts)))
                        ELSE ParseElements(Tail(ts), <<>>)
                  [] h.c = "{" ->
                        IF IsPunct(Tail(ts), "}") THEN Parsed(EmptyObj, Tail(Tail(ts)))
                        ELSE ParseMembers(Tail(ts), [x \in {} |-> Undef])
                  [] OTHER -> SyntaxError

\* JSON.parse(text): the whole text is one value, or a SyntaxError is thrown.
JSONparse(text) ==
    Bind(ParseValue(text.json), LAMBDA r :
        IF r.ok /\ r.rest = <<>> THEN Ok(r.v) ELSE Throw)

RECURSIVE Tokens(_)
RECURSIVE ElementTokens(_)
RECURSIVE MemberTokens(_, _)
ElementTokens(a) ==
    IF a = <<>> THEN <<>>
    ELSE Tokens(Head(a)) \o (IF Len(a) > 1 THEN <<TPunct(",")>> ELSE <<>>)
            \o ElementTokens(Tail(a))

MemberTokens(o, keys) ==
    IF keys = {} THEN <<>>
    ELSE LET key == CHOOSE x \in keys : TRUE IN
         <<TString(key), TPunct(":")>> \o Tokens(o[key])
            \o (IF keys # {key} THEN <<TPunct(",")>> ELSE <<>>)
            \o MemberTokens(o, keys \ {key})

\* The JSON text of a value, as the language model writes its reply.
Tokens(v) ==
    CASE v.t = "null" -> <<TWord("null")>>
      [] v.t = "boolean" -> <<TWord(IF v.b THEN "true" ELSE "false")>>
      [] v.t = "number" -> <<TNumber(v)>>
      [] v.t = "string" -> <<TString(v.s)>>
      [] v.t = "array" -> <<TPunct("[")>> \o ElementTokens(v.a) \o <<TPunct("]")>>
      [] v.t = "object" ->
            <<TPunct("{")>> \o MemberTokens(v.o, DOMAIN v.o) \o <<TPunct("}")>>

(***************************************************************************)
(* The handler.  Its three variants differ in what they ask of the model   *)
(* and in what they render; part_000 renders no listing card.              *)
(***************************************************************************)
Variants == {"api/valuation.js", "part_000", "part_001"}

HasListing(v) == v # "part_000"

HasImageCategory(v) == v = "part_001"

BulletCap == 3

\* listingBullets.slice(0, 3) in part_001; no cut in api/valuation.js.
CapBullets(v, a) ==
    IF v = "part_001" /\ Len(a) > BulletCap THEN SubSeq(a, 1, BulletCap) ELSE a

BASE_THUMB == <<"https://bth-valuation-api.vercel.app/thumbnails">>

\* categoryImages of api/valuation.js.
UnsplashImages ==
    (<<"c", "a", "f", "e">> :> <<"https://source.unsplash.com/600x400/?cafe,coffee-shop,interior">>
      @@ <<"r", "e", "s", "t", "a", "u", "r", "a", "n", "t">> :> <<"https://source.unsplash.com/600x400/?restaurant,dining,interior">>
      @@ <<"r", "e", "t", "a", "i", "l">> :> <<"https://source.unsplash.com/600x400/?retail,store,shop,interior">>
      @@ <<"s", "e", "r", "v", "i", "c", "e", "s">> :> <<"https://source.unsplash.com/600x400/?office,workspace,team">>
      @@ <<"t", "r", "a", "d", "e", "s">> :> <<"https://source.unsplash.com/600x400/?workshop,industrial,warehouse">>
      @@ <<"b", "e", "a", "u", "t", "y">> :> <<"https://source.unsplash.com/600x400/?salon,beauty,spa,interior">>
      @@ <<"f", "i", "t", "n", "e", "s", "s">> :> <<"https://source.unsplash.com/600x400/?gym,fitness,studio">>
      @@ <<"h", "e", "a", "l", "t", "h", "c", "a", "r", "e">> :> <<"https://source.unsplash.com/600x400/?clinic,medical,interior">>
      @@ <<"a", "u", "t", "o", "m", "o", "t", "i", "v", "e">> :> <<"https://source.unsplash.com/600x400/?auto,garage,car,workshop">>
      @@ <<"o", "n", "l", "i", "n", "e">> :> <<"https://source.unsplash.com/600x400/?ecommerce,online,business">>
      @@ <<"g", "e", "n", "e", "r", "i", "c">> :> <<"https://source.unsplash.com/600x400/?small,business,interior">>)

\* allowedCategories = Object.keys(categoryImages)
AllowedCategories == DOMAIN UnsplashImages

\* categoryImages: one thumbnail reference per category;
\* `${BASE_THUMB}/cafe.jpg` and so on in part_001.
categoryImages(v) ==
    IF v = "part_001"
    THEN [c \in AllowedCategories |-> BASE_THUMB \o <<"/">> \o c \o <<".", "j", "p", "g">>]
    ELSE UnsplashImages

\* categoryImages[category] || categoryImages.generic
thumbUrl(v, category) ==
    IF category \in DOMAIN categoryImages(v) THEN categoryImages(v)[category]
    ELSE categoryImages(v)[Cat_generic]

\* The category the thumbnail is chosen by: inferCategory(businessType) in
\* api/valuation.js; in part_001 the reply's imageCategory when it is a
\* string that, lower-cased and trimmed, is an allowed category, and
\* inferCategory(businessType) otherwise.
chosenCategory(v, businessType, imageCategory) ==
    IF HasImageCategory(v) /\ imageCategory.t = "string"
    THEN Bind(Trim(ToLowerCase(imageCategory.s)), LAMBDA lowered :
            IF lowered \in AllowedCategories THEN Ok(Str(lowered))
            ELSE inferCategory(businessType))
    ELSE inferCategory(businessType)

\* (x || "").replace(/\n/g, "<br>"): a truthy value that is no string has no
\* replace method.
BrHtml(x) ==
    LET y == OrElse(x, Str(<<>>)) IN
    IF y.t = "string" THEN Ok(BrMarkup(y.s)) ELSE Throw

\* The text before the first white space that follows a full stop:
\* s.split(/(?<=\.)\s+/)[0]
FirstSentence(s) ==
    LET cuts == {i \in 1..(Len(s) - 1) : s[i] = "." /\ s[i + 1] \in WhiteSpace} IN
    IF cuts = {} THEN s
    ELSE SubSeq(s, 1, CHOOSE i \in cuts : \A j \in cuts : i <= j)

\* (listingIntro || "").split(/(?<=\.)\s+/)[0] || listingIntro || ""
shortIntro(listingIntro) ==
    LET y == OrElse(listingIntro, Str(<<>>)) IN
    IF y.t # "string" THEN Throw
    ELSE IF FirstSentence(y.s) # <<>> THEN Ok(Str(FirstSentence(y.s)))
    ELSE Ok(OrElse(listingIntro, Str(<<>>)))

RECURSIVE ListItems(_)
\* bulletsArray.map((b) => `<li ...>${b}</li>`).join("")
ListItems(a) ==
    IF a = <<>> THEN Ok(<<>>)
    ELSE Bind(<<ToStringJS(Head(a)), ListItems(Tail(a))>>, LAMBDA hr :
            IF ~hr[1].ok \/ ~hr[2].ok THEN Throw
            ELSE Ok(<<"<li>">> \o hr[1].v \o <<"</li>">> \o hr[2].v))

bulletsHtml(v, listingBullets) ==
    ListItems(IF listingBullets.t = "array" THEN CapBullets(v, listingBullets.a) ELSE <<>>)

\* bulletsHtml ? `<div ...></div><ul ...>${bulletsHtml}</ul>` : ""
ListBlock(items) ==
    IF items = <<>> THEN <<>> ELSE <<"<div></div><ul>">> \o items \o <<"</ul>">>

\* The request fields the handler destructures from req.body || {}.
Fields(r) ==
    LET b == OrElse(r.body, EmptyObj) IN
    [businessType |-> Get(b, "businessType"),
     location |-> Get(b, "location"),
     annualRevenue |-> Get(b, "annualRevenue"),
     annualProfit |-> Get(b, "annualProfit"),
     yearsOperating |-> Get(b, "yearsOperating"),
     staffCount |-> Get(b, "staffCount"),
     email |-> Get(b, "email")]

\* if (!businessType || !annualProfit): the test of email left out.
MissingRequiredNoEmail(f) ==
    ~Truthy(f.businessType) \/ ~Truthy(f.annualProfit)

\* if (!businessType || !annualProfit || !email)
MissingRequired(f) ==
    ~Truthy(f.businessType) \/ ~Truthy(f.annualProfit) \/ ~Truthy(f.email)

\* Whether every outcome of a family of evaluations is a value.
AllOk(outs) == \A x \in DOMAIN outs : outs[x].ok

Values(outs) == [x \in DOMAIN outs |-> outs[x].v]

\* The prompt: the template literal's fixed text and the six interpolated
\* request fields, each converted by ToString.
BuildPrompt(v, f) ==
    Bind([businessType |-> ToStringJS(f.businessType),
          location |-> ToStringJS(f.location),
          annualRevenue |-> ToStringJS(f.annualRevenue),
          annualProfit |-> ToStringJS(f.annualProfit),
          yearsOperating |-> ToStringJS(f.yearsOperating),
          staffCount |-> ToStringJS(f.staffCount)],
         LAMBDA parts :
        IF ~AllOk(parts) THEN Throw
        ELSE Ok(<<"<prompt: keys>", v, "- Business type: ">> \o parts.businessType.v
                \o <<"- Location: ">> \o parts.location.v
                \o <<"- Annual revenue: ">> \o parts.annualRevenue.v
                \o <<"- Annual profit / owner's earnings: ">> \o parts.annualProfit.v
                \o <<"- Years operating: ">> \o parts.yearsOperating.v
                \o <<"- Staff count: ">> \o parts.staffCount.v
                \o <<"<prompt: rules>", v>>))

\* client.chat.completions.create({...})
ModelRequest(prompt) ==
    [model |-> "gpt-4.1-mini",
     messages |-> <<[role |-> "user", content |-> prompt]>>,
     response_format |-> "json_object"]

\* x.key, which throws a TypeError when x is undefined or null.
Member(x, key) ==
    IF ~x.ok \/ x.v.t \in {"undefined", "null"} THEN Throw ELSE Ok(Get(x.v, key))

\* x[0] of an array.
First(x) ==
    IF ~x.ok \/ x.v.t \in {"undefined", "null"} THEN Throw
    ELSE IF x.v.t = "array" /\ x.v.a # <<>> THEN Ok(Head(x.v.a)) ELSE Ok(Undef)

\* A parse that falls back to {} when the content is no JSON text.
ParseReplyLenient(completion) ==
    Bind(Member(Member(First(Member(Ok(completion), "choices")), "message"), "content"),
         LAMBDA content :
            IF ~content.ok THEN Throw
            ELSE Bind(JSONparse(OrElse(content.v, JsonText(<<TPunct("{"), TPunct("}")>>))),
                      LAMBDA parsed : IF parsed.ok THEN parsed ELSE Ok(EmptyObj)))

\* JSON.parse(completion.choices[0].message.content || "{}")
ParseReply(completion) ==
    Bind(Member(Member(First(Member(Ok(completion), "choices")), "message"), "content"),
         LAMBDA content :
            IF ~content.ok THEN Throw
            ELSE JSONparse(OrElse(content.v, JsonText(<<TPunct("{"), TPunct("}")>>))))

\* The values interpolated into the HTML template, slot by slot, after the
\* defaulting the handler applies, each a text or a thrown TypeError.
Slots(v, f, data) ==
    LET intro == IF v = "part_001" THEN shortIntro(Get(data, "listingIntro"))
                 ELSE Ok(OrElse(Get(data, "listingIntro"), Str(<<>>)))
        items == IF HasListing(v) THEN bulletsHtml(v, Get(data, "listingBullets"))
                 ELSE Ok(<<>>)
        category == IF HasListing(v)
                    THEN chosenCategory(v, f.businessType, Get(data, "imageCategory"))
                    ELSE Ok(Str(Cat_generic))
        common ==
            [low |-> formatAUD(Get(data, "lowEstimate")),
             high |-> formatAUD(Get(data, "highEstimate")),
             rec |-> formatAUD(Get(data, "recommendedPrice")),
             multiple |-> ToStringJS(OrElse(Get(data, "multipleRange"), Str(<<"-">>))),
             confidence |-> ToStringJS(OrElse(Get(data, "confidence"), Str(<<"Medium">>))),
             sellTime |-> ToStringJS(OrElse(Get(data, "sellTime"), Str(<<"3<U+2013>9 months">>))),
             businessType |-> ToStringJS(f.businessType),
             location |-> ToStringJS(OrElse(f.location, Str(<<"-">>))),
             revenue |-> formatAUD(f.annualRevenue),
             profit |-> formatAUD(f.annualProfit),
             years |-> ToStringJS(OrElse(f.yearsOperating, Str(<<"-">>))),
             staff |-> ToStringJS(OrElse(f.staffCount, Str(<<"-">>))),
             notes |-> BrHtml(Get(data, "notes")),
             improvement |-> BrHtml(Get(data, "improvementIdeas"))]
        listing ==
            [issued |-> Ok(<<"<issuedDate>">>),
             thumb |-> Bind(category, LAMBDA c : IF c.ok THEN Ok(thumbUrl(v, c.v.s)) ELSE Throw),
             title |-> ToStringJS(OrElse(Get(data, "listingTitle"),
                                         Str(<<"Profitable business opportunity">>))),
             intro |-> Bind(intro, LAMBDA i :
                            IF ~i.ok THEN Throw
                            ELSE IF v = "part_001"
                            THEN Ok(IF Truthy(i.v)
                                    THEN <<"<div>">> \o i.v.s \o <<"</div>">> ELSE <<>>)
                            ELSE ToStringJS(i.v)),
             bullets |-> Bind(items, LAMBDA b : IF b.ok THEN Ok(ListBlock(b.v)) ELSE Throw)]
        established ==
            [established |-> ToStringJS(OrElse(f.yearsOperating, Str(<<"N/A">>)))]
    IN  CASE v = "part_000" -> common
          [] v = "part_001" -> common @@ listing
          [] OTHER -> common @@ listing @@ established

\* The rendering of the email from the request fields f and the parsed reply
\* data: destructuring null throws; so does any slot.
Render(v, f, data) ==
    IF data.t \in {"undefined", "null"} THEN Throw
    ELSE Bind(Slots(v, f, data),
              LAMBDA slots : IF AllOk(slots) THEN Ok(Values(slots)) ELSE Throw)

\* An email addressed to the sender instead of the caller.
EmailRequestToSender(email, html) ==
    [from |-> "BizTradeHub <onboarding@resend.dev>",
     to |-> <<Str(<<"onboarding@resend.dev">>)>>,
     subject |-> "Your BizTradeHub business valuation estimate",
     html |-> html]

\* resend.emails.send({from, to: [email], subject, html})
EmailRequest(email, html) ==
    [from |-> "BizTradeHub <onboarding@resend.dev>",
     to |-> <<email>>,
     subject |-> "Your BizTradeHub business valuation estimate",
     html |-> html]

(***************************************************************************)
(* What the handler does between two suspensions: the responses it sends,  *)
(* what it logs, the external calls it starts, and where it stops: at an   *)
(* await, or returned.                                                     *)
(***************************************************************************)
Resp(status, body) == [status |-> status, body |-> body]

Did(sent, logged, mcalls, ecalls, next) ==
    [sent |-> sent, logged |-> logged, modelCalls |-> mcalls, emailCalls |-> ecalls,
     next |-> next]

\* return res.status(405).json({ error: "Method not allowed" })
MethodNotAllowed ==
    Did(<<Resp(405, [error |-> "Method not allowed"])>>, <<>>, <<>>, <<>>, "returned")

\* return res.status(400).json({ error: "Missing required fields" })
MissingFields ==
    Did(<<Resp(400, [error |-> "Missing required fields"])>>, <<>>, <<>>, <<>>, "returned")

\* A catch block that logs and sends no response.
CaughtSilently ==
    Did(<<>>, <<"Valuation error:">>, <<>>, <<>>, "returned")

\* catch (err) { console.error(...); return res.status(500).json(...) }
Caught ==
    Did(<<Resp(500, [error |-> "Server error"])>>, <<"Valuation error:">>, <<>>, <<>>,
        "returned")

\* A try block that starts the email call together with the model call,
\* without awaiting the reply.
TryBlockParallel(v, r) ==
    Bind(Fields(r), LAMBDA f :
        IF MissingRequired(f) THEN MissingFields
        ELSE Bind(BuildPrompt(v, f), LAMBDA prompt :
                IF ~prompt.ok THEN Caught
                ELSE Did(<<>>, <<>>, <<ModelRequest(prompt.v)>>,
                         <<EmailRequest(f.email, [draft |-> TRUE])>>, "awaitModel")))

\* The try block up to the first await.
TryBlock(v, r) ==
    Bind(Fields(r), LAMBDA f :
        IF MissingRequired(f) THEN MissingFields
        ELSE Bind(BuildPrompt(v, f), LAMBDA prompt :
                IF ~prompt.ok THEN Caught
                ELSE Did(<<>>, <<>>, <<ModelRequest(prompt.v)>>, <<>>, "awaitModel")))

\* A handler without the method check.
StartAnyMethod(v, r) == TryBlock(v, r)

\* handler(req, res) up to its first suspension.
Start(v, r) ==
    IF r.method # "POST" THEN MethodNotAllowed ELSE TryBlock(v, r)

\* The handler from the settling of the model call to its next suspension.
OnModel(v, r, result) ==
    IF result.settled = "rejected" THEN Caught
    ELSE Bind(ParseReply(result.value), LAMBDA data :
            IF ~data.ok THEN Caught
            ELSE Bind(Render(v, Fields(r), data.v), LAMBDA html :
                    IF ~html.ok THEN Caught
                    ELSE Did(<<>>, <<>>, <<>>, <<EmailRequest(Fields(r).email, html.v)>>,
                             "awaitEmail")))

\* A handler that fails the request when the provider reports an error.
OnEmailStrict(v, r, result) ==
    IF result.settled = "rejected" THEN Caught
    ELSE IF result.value.t \in {"undefined", "null"} THEN Caught
    ELSE IF Truthy(Get(result.value, "error")) THEN Caught
    ELSE Did(<<Resp(200, [ok |-> TRUE])>>, <<>>, <<>>, <<>>, "returned")

\* The handler from the settling of the email call to its return:
\* const { error: emailError } = await resend.emails.send(...)
OnEmail(v, r, result) ==
    IF result.settled = "rejected" THEN Caught
    ELSE IF result.value.t \in {"undefined", "null"} THEN Caught
    ELSE Did(<<Resp(200, [ok |-> TRUE])>>,
             IF Truthy(Get(result.value, "error")) THEN <<"Resend email error:">> ELSE <<>>,
             <<>>, <<>>, "returned")

(***************************************************************************)
(* The inputs: requests, chat completions, email results.                  *)
(***************************************************************************)
\* The longest reply text drawn token by token.
MaxRaw == 3

\* The longest listingBullets array of a reply.
MaxBullets == 4

\* An object with the properties of rec that are not undefined.
ObjOf(rec) ==
    Obj([k \in {Key(x) : x \in {y \in DOMAIN rec : rec[y] # Undef}} |-> rec[k[1]]])

T_CafeInBondi == <<"C", "a", "f", "e", " ", "i", "n", " ", "B", "o", "n", "d", "i">>

\* An object whose own toString property is no function.
Unprintable == ObjOf([toString |-> Num(10)])

BusinessTypes == {Undef, Str(<<>>), Str(T_CafeInBondi), Num(50), Unprintable}

AnnualProfits == {Undef, Num(0), Num(1500000), Str(<<"a", "b", "c">>), Str(<<>>)}

Emails == {Undef, Null, Str(<<>>), Str(<<"a@b.com">>)}

\* location, annualRevenue, yearsOperating, staffCount: all absent, all
\* given, or a location that cannot be converted to text.
Optionals ==
    {[location |-> Undef, annualRevenue |-> Undef, yearsOperating |-> Undef,
      staffCount |-> Undef],
     [location |-> Str(<<"B", "o", "n", "d", "i">>), annualRevenue |-> Num(4000000),
      yearsOperating |-> Num(50), staffCount |-> Num(40)],
     [location |-> Unprintable, annualRevenue |-> Undef, yearsOperating |-> Undef,
      staffCount |-> Undef]}

Bodies ==
    {Undef, Null, Str(<<"x">>)}
    \cup {ObjOf([businessType |-> b, annualProfit |-> a, email |-> e,
                 location |-> o.location, annualRevenue |-> o.annualRevenue,
                 yearsOperating |-> o.yearsOperating, staffCount |-> o.staffCount]) :
            b \in BusinessTypes, a \in AnnualProfits, e \in Emails, o \in Optionals}

Methods == {"POST", "GET", "OPTIONS"}

Requests == [method : Methods, body : Bodies]

\* The tokens of the short reply texts; the texts with "," and ":" are those
\* of the reply objects.
RawTokens ==
    {TPunct("{"), TPunct("}"), TPunct("["), TPunct("]"),
     TWord("null"), TNumber(Num(70)), TString(<<"notes">>)}

RECURSIVE SeqsUpTo(_, _)
\* The sequences over S of length at most n.
SeqsUpTo(S, n) ==
    IF n = 0 THEN {<<>>}
    ELSE LET shorter == SeqsUpTo(S, n - 1) IN
         shorter \cup {Append(s, x) : s \in shorter, x \in S}

T_notes == <<"S", "t", "a", "b", "l", "e", ".", "\n", "L", "o", "y", "a", "l", ".">>

Bullet(i) == Str(<<"bullet", DigitSyms[i + 1]>>)

\* The listingBullets values: absent, no array, the arrays of 0..MaxBullets
\* entries.
BulletLists ==
    {Undef, Str(<<"x">>)} \cup {Arr([i \in 1..n |-> Bullet(i)]) : n \in 0..MaxBullets}

ImageCategories ==
    {Undef, Str(<<" ", "B", "e", "a", "u", "t", "y", " ">>),
     Str(<<"f", "a", "n", "c", "y", "s", "h", "o", "p">>), Num(10)}

NoFields ==
    [lowEstimate |-> Undef, highEstimate |-> Undef, recommendedPrice |-> Undef,
     multipleRange |-> Undef, confidence |-> Undef, sellTime |-> Undef, notes |-> Undef,
     improvementIdeas |-> Undef, listingTitle |-> Undef, listingIntro |-> Undef,
     listingBullets |-> Undef, imageCategory |-> Undef]

\* The reply objects: the estimates, the confidence and the defaulted texts
\* together; the texts that are processed, with the image category; the
\* bullets, with the image category.
Replies ==
    {[NoFields EXCEPT !.lowEstimate = e, !.highEstimate = e, !.recommendedPrice = e,
                      !.confidence = c, !.sellTime = t, !.listingTitle = t,
                      !.multipleRange = t] :
        e \in {Undef, Num(4500004), Str(<<"n", "/", "a">>)},
        c \in {Undef, Str(<<"High">>), Str(<<"Banana">>)},
        t \in {Undef, Str(<<"text">>)}}
    \cup
    {[NoFields EXCEPT !.notes = n, !.improvementIdeas = n, !.listingIntro = i,
                      !.imageCategory = g] :
        n \in {Undef, Str(T_notes), Num(70)},
        i \in {Undef, Str(<<"A", ".", " ", "B", ".">>), Arr(<<Str(<<"A">>)>>)},
        g \in ImageCategories}
    \cup
    {[NoFields EXCEPT !.listingBullets = b, !.imageCategory = g] :
        b \in BulletLists, g \in {Undef, Str(<<"o", "n", "l", "i", "n", "e">>)}}

\* The message contents: absent, empty, short texts token by token, and the
\* JSON texts of the reply objects.
Contents ==
    {Undef, Null}
    \cup {JsonText(ts) : ts \in SeqsUpTo(RawTokens, MaxRaw)}
    \cup {JsonText(Tokens(ObjOf(r))) : r \in Replies}

Completion(content) ==
    ObjOf([choices |-> Arr(<<ObjOf([message |-> ObjOf([role |-> Str(<<"assistant">>),
                                                         content |-> content])])>>)])

Completions ==
    {Completion(c) : c \in Contents} \cup {ObjOf([choices |-> Arr(<<>>)])}

Pending == [settled |-> "pending"]

Rejected == [settled |-> "rejected"]

Resolved(value) == [settled |-> "resolved", value |-> value]

\* What resend.emails.send resolves with: { data, error } with one of the
\* two null.
EmailValues ==
    {ObjOf([data |-> ObjOf([id |-> Str(<<"id">>)]), error |-> Null]),
     ObjOf([data |-> Null, error |-> ObjOf([message |-> Str(<<"failed">>)])])}

(***************************************************************************)
(* One request, from its arrival to the handler's return.                  *)
(***************************************************************************)
NoCall == [method |-> "-", body |-> Undef]

\* No function applied yet: fout is the sequence of the outcomes so far.
Idle == <<>>

Init ==
    /\ variant \in Variants
    /\ req \in Requests
    /\ pc = "start"
    /\ responses = <<>>
    /\ modelCalls = <<>>
    /\ emailCalls = <<>>
    /\ logs = <<>>
    /\ modelResult = Pending
    /\ emailResult = Pending
    /\ fin = Undef
    /\ fout = Idle
    /\ inflight = <<>>

\* The handler runs to its next suspension or to its return.
Advance(did) ==
    /\ pc' = did.next
    /\ responses' = responses \o did.sent
    /\ logs' = logs \o did.logged
    /\ modelCalls' = modelCalls \o did.modelCalls
    /\ emailCalls' = emailCalls \o did.emailCalls
    /\ UNCHANGED <<variant, req, fin, fout, inflight>>

\* The runtime invokes handler(req, res).
Enter ==
    /\ pc = "start"
    /\ \E did \in {Start(variant, req)} : Advance(did)
    /\ UNCHANGED <<modelResult, emailResult>>

\* await client.chat.completions.create(...) resolves.
ModelResolves ==
    /\ pc = "awaitModel"
    /\ \E c \in Completions :
          /\ modelResult' = Resolved(c)
          /\ \E did \in {OnModel(variant, req, Resolved(c))} : Advance(did)
    /\ UNCHANGED emailResult

\* await client.chat.completions.create(...) throws.
ModelRejects ==
    /\ pc = "awaitModel"
    /\ modelResult' = Rejected
    /\ \E did \in {OnModel(variant, req, Rejected)} : Advance(did)
    /\ UNCHANGED emailResult

\* await resend.emails.send(...) resolves.
EmailResolves ==
    /\ pc = "awaitEmail"
    /\ \E e \in EmailValues :
          /\ emailResult' = Resolved(e)
          /\ \E did \in {OnEmail(variant, req, Resolved(e))} : Advance(did)
    /\ UNCHANGED modelResult

\* await resend.emails.send(...) throws.
EmailRejects ==
    /\ pc = "awaitEmail"
    /\ emailResult' = Rejected
    /\ \E did \in {OnEmail(variant, req, Rejected)} : Advance(did)
    /\ UNCHANGED modelResult

Next == Enter \/ ModelResolves \/ ModelRejects \/ EmailResolves \/ EmailRejects

Spec == Init /\ [][Next]_vars

\* Every awaited promise settles, and the runtime runs the handler when it
\* can: a step that can be taken is taken.
SpecFair == Spec /\ WF_vars(Next)

(***************************************************************************)
(* inferCategory on its own: an argument, and the outcomes of its calls.   *)
(***************************************************************************)
\* The most words of a generated business description.
MaxWords == 2

\* One keyword of each rule, in rule order, and a word no rule knows.
Words ==
    <<<<"c", "a", "f", "e">>, <<"p", "i", "z", "z", "a">>, <<"s", "t", "o", "r", "e">>,
      <<"b", "e", "a", "u", "t", "y">>, <<"g", "y", "m">>, <<"c", "l", "i", "n", "i", "c">>,
      <<"a", "u", "t", "o">>, <<"p", "l", "u", "m", "b">>, <<"o", "n", "l", "i", "n", "e">>,
      <<"l", "a", "w">>, <<"m", "y">>>>

RECURSIVE Joined(_, _)
\* The words numbered ws, joined by sep.
Joined(ws, sep) ==
    IF ws = <<>> THEN <<>>
    ELSE IF Len(ws) = 1 THEN Words[ws[1]]
    ELSE Words[ws[1]] \o sep \o Joined(Tail(ws), sep)

T_OnlineBeautyStore ==
    <<"O", "n", "l", "i", "n", "e", " ", "b", "e", "a", "u", "t", "y", " ",
      "s", "t", "o", "r", "e">>

\* The descriptions: the omitted argument, two examples, and up to MaxWords
\* words, run together or spaced, in lower or upper case.
Descriptions ==
    {Undef, Str(T_CafeInBondi), Str(T_OnlineBeautyStore),
     Str(ToLowerCase(T_OnlineBeautyStore))}
    \cup {Str(Joined(ws, sep)) : ws \in SeqsUpTo(DOMAIN Words, MaxWords), sep \in {<<>>, <<" ">>}}
    \cup {Str(ToUpperCase(Joined(ws, sep))) :
            ws \in SeqsUpTo(DOMAIN Words, MaxWords), sep \in {<<>>, <<" ">>}}

InitCat ==
    /\ fin \in Descriptions
    /\ fout = Idle
    /\ variant = "-"
    /\ req = NoCall
    /\ pc = "-"
    /\ responses = <<>>
    /\ modelCalls = <<>>
    /\ emailCalls = <<>>
    /\ logs = <<>>
    /\ modelResult = Pending
    /\ emailResult = Pending
    /\ inflight = <<>>

\* inferCategory(fin), or inferCategory() when fin is undefined; once, and
\* once more.
CallInferCategory ==
    /\ Len(fout) < 2
    /\ fout' = Append(fout, inferCategory(fin))
    /\ UNCHANGED <<hvars, fin>>

NextCat == CallInferCategory

SpecCat == InitCat /\ [][NextCat]_vars

(***************************************************************************)
(* formatAUD on its own: a value, and the outcome of its call.             *)
(***************************************************************************)
\* The longest text drawn character by character.
MaxText == 2

AUDChars == {"1", "5", ".", "-", " ", "a"}

\* The values formatAUD is given: request fields are any JSON value, reply
\* fields too; numbers around the rounding points, and short texts.
AUDValues ==
    {Undef, Null, NaN, PosInf, NegInf, Bool(TRUE), Bool(FALSE), Arr(<<>>),
     Arr(<<Num(70)>>), EmptyObj, Unprintable, Num(12345678), Num(9995),
     Str(<<"1", "2", "3", "4", "5", "6", "7", ".", "8">>), Str(T_Infinity)}
    \cup {Num(n) : n \in -20..20}
    \cup {Str(s) : s \in SeqsUpTo(AUDChars, MaxText)}

InitAUD ==
    /\ fin \in AUDValues
    /\ fout = Idle
    /\ variant = "-"
    /\ req = NoCall
    /\ pc = "-"
    /\ responses = <<>>
    /\ modelCalls = <<>>
    /\ emailCalls = <<>>
    /\ logs = <<>>
    /\ modelResult = Pending
    /\ emailResult = Pending
    /\ inflight = <<>>

\* formatAUD(fin)
CallFormatAUD ==
    /\ fout = Idle
    /\ fout' = <<formatAUD(fin)>>
    /\ UNCHANGED <<hvars, fin>>

NextAUD == CallFormatAUD

SpecAUD == InitAUD /\ [][NextAUD]_vars

(***************************************************************************)
(* Several requests in flight: the runtime invokes handler once for each,  *)
(* and their steps interleave at the awaits.  The module-level client and  *)
(* resend are only called; the handler keeps everything else in the locals *)
(* of its invocation.                                                      *)
(***************************************************************************)
\* The most requests in flight together.
MaxInFlight == 2

\* The request kept in a module-level variable that every invocation
\* overwrites: each invocation sees the latest request.
RequestOfLatest(flights, i) == flights[Len(flights)].req

\* The request as the i-th invocation of handler sees it: its own parameter.
RequestOf(flights, i) == flights[i].req

\* The state of an invocation that has not started.
NewFlight(r) ==
    [req |-> r, pc |-> "start", responses |-> <<>>, modelCalls |-> <<>>,
     emailCalls |-> <<>>, logs |-> <<>>, modelResult |-> Pending, emailResult |-> Pending]

\* The invocation f after a run of the handler to its next suspension or to
\* its return.
After(f, did) ==
    [f EXCEPT !.pc = did.next,
              !.responses = @ \o did.sent,
              !.logs = @ \o did.logged,
              !.modelCalls = @ \o did.modelCalls,
              !.emailCalls = @ \o did.emailCalls]

OtherEmail == Str(<<"c@d.com">>)

\* Requests in flight together: two that pass validation, for different
\* callers, one without email, and a GET.
FlightRequests ==
    {[method |-> "POST",
      body |-> ObjOf([businessType |-> Str(T_CafeInBondi), annualProfit |-> Num(1500000),
                      email |-> Str(<<"a@b.com">>)])],
     [method |-> "POST",
      body |-> ObjOf([businessType |-> Str(T_OnlineBeautyStore), annualProfit |-> Num(70),
                      email |-> OtherEmail])],
     [method |-> "POST",
      body |-> ObjOf([businessType |-> Str(T_CafeInBondi), annualProfit |-> Num(1500000)])],
     [method |-> "GET", body |-> Undef]}

\* Their model replies: a reply with fields, and a text that is no JSON.
FlightCompletions ==
    {Completion(JsonText(Tokens(ObjOf([NoFields EXCEPT !.confidence = Str(<<"High">>),
                                                       !.lowEstimate = Num(4500004)])))),
     Completion(JsonText(<<TPunct("{")>>))}

InitMulti ==
    /\ variant \in Variants
    /\ inflight \in [1..MaxInFlight -> {NewFlight(r) : r \in FlightRequests}]
    /\ req = NoCall
    /\ pc = "-"
    /\ responses = <<>>
    /\ modelCalls = <<>>
    /\ emailCalls = <<>>
    /\ logs = <<>>
    /\ modelResult = Pending
    /\ emailResult = Pending
    /\ fin = Undef
    /\ fout = Idle

Others == <<variant, req, pc, responses, modelCalls, emailCalls, logs, modelResult,
            emailResult, fin, fout>>

\* The runtime invokes handler for the i-th request.
EnterOf(i) ==
    /\ inflight[i].pc = "start"
    /\ \E did \in {Start(variant, RequestOf(inflight, i))} :
          inflight' = [inflight EXCEPT ![i] = After(@, did)]
    /\ UNCHANGED Others

\* The model call of the i-th request resolves.
ModelResolvesOf(i) ==
    /\ inflight[i].pc = "awaitModel"
    /\ \E c \in FlightCompletions :
          \E did \in {OnModel(variant, RequestOf(inflight, i), Resolved(c))} :
             inflight' = [inflight EXCEPT
                             ![i] = After([@ EXCEPT !.modelResult = Resolved(c)], did)]
    /\ UNCHANGED Others

\* The model call of the i-th request throws.
ModelRejectsOf(i) ==
    /\ inflight[i].pc = "awaitModel"
    /\ \E did \in {OnModel(variant, RequestOf(inflight, i), Rejected)} :
          inflight' = [inflight EXCEPT ![i] = After([@ EXCEPT !.modelResult = Rejected], did)]
    /\ UNCHANGED Others

\* The email call of the i-th request resolves.
EmailResolvesOf(i) ==
    /\ inflight[i].pc = "awaitEmail"
    /\ \E e \in EmailValues :
          \E did \in {OnEmail(variant, RequestOf(inflight, i), Resolved(e))} :
             inflight' = [inflight EXCEPT
                             ![i] = After([@ EXCEPT !.emailResult = Resolved(e)], did)]
    /\ UNCHANGED Others

\* The email call of the i-th request throws.
EmailRejectsOf(i) ==
    /\ inflight[i].pc = "awaitEmail"
    /\ \E did \in {OnEmail(variant, RequestOf(inflight, i), Rejected)} :
          inflight' = [inflight EXCEPT ![i] = After([@ EXCEPT !.emailResult = Rejected], did)]
    /\ UNCHANGED Others

EnterAny == \E i \in DOMAIN inflight : EnterOf(i)

ModelResolvesAny == \E i \in DOMAIN inflight : ModelResolvesOf(i)

ModelRejectsAny == \E i \in DOMAIN inflight : ModelRejectsOf(i)

EmailResolvesAny == \E i \in DOMAIN inflight : EmailResolvesOf(i)

EmailRejectsAny == \E i \in DOMAIN inflight : EmailRejectsOf(i)

NextMulti ==
    EnterAny \/ ModelResolvesAny \/ ModelRejectsAny \/ EmailResolvesAny \/ EmailRejectsAny

SpecMulti == InitMulti /\ [][NextMulti]_vars

(***************************************************************************)
(* The properties of the handler, checked under Spec unless said           *)
(* otherwise.                                                              *)
(***************************************************************************)
MethodNotAllowedResponse == Resp(405, [error |-> "Method not allowed"])

MissingFieldsResponse == Resp(400, [error |-> "Missing required fields"])

ServerErrorResponse == Resp(500, [error |-> "Server error"])

OkResponse == Resp(200, [ok |-> TRUE])

\* A request field that is missing (undefined, null) or the empty text.
MissingOrEmpty(x) ==
    x.t \in {"undefined", "null"} \/ (x.t = "string" /\ x.s = <<>>)

\* The message content of a resolved model call, as the handler reads it.
ReplyContent ==
    Member(Member(First(Member(Ok(modelResult.value), "choices")), "message"), "content")

\* The model call resolved with a non-empty content that JSON.parse rejects.
ReplyUnparseable ==
    /\ modelResult.settled = "resolved"
    /\ ReplyContent.ok
    /\ Truthy(ReplyContent.v)
    /\ ~JSONparse(ReplyContent.v).ok

\* The model call resolved with the content "{}".
ReplyEmptyObject ==
    /\ modelResult.settled = "resolved"
    /\ ReplyContent.ok
    /\ ReplyContent.v = JsonText(<<TPunct("{"), TPunct("}")>>)

\* C1: a request whose method is not POST, whatever its body, is answered
\* 405 {"error":"Method not allowed"}, and neither the model call nor the
\* email call is invoked for it.
C1_NonPostIs405 ==
    req.method # "POST" =>
        /\ modelCalls = <<>>
        /\ emailCalls = <<>>
        /\ pc \in {"start", "returned"}
        /\ pc = "returned" => responses = <<MethodNotAllowedResponse>>

\* A GET request whose body lacks the required fields has been answered 405.
C1_Witness ==
    /\ req.method = "GET"
    /\ req.body.t = "object"
    /\ MissingOrEmpty(Fields(req).email)
    /\ pc = "returned"
    /\ responses = <<MethodNotAllowedResponse>>

\* C2: a POST request in which businessType, annualProfit or email is
\* missing or empty is answered 400 {"error":"Missing required fields"}, and
\* neither the model call nor the email call is invoked for it.
C2_MissingFieldIs400 ==
    (/\ req.method = "POST"
     /\ \/ MissingOrEmpty(Fields(req).businessType)
        \/ MissingOrEmpty(Fields(req).annualProfit)
        \/ MissingOrEmpty(Fields(req).email)) =>
        /\ modelCalls = <<>>
        /\ emailCalls = <<>>
        /\ pc \in {"start", "returned"}
        /\ pc = "returned" => responses = <<MissingFieldsResponse>>

\* A POST request with a business type and a profit and no email has been
\* answered 400.
C2_Witness ==
    /\ req.method = "POST"
    /\ Truthy(Fields(req).businessType)
    /\ Truthy(Fields(req).annualProfit)
    /\ MissingOrEmpty(Fields(req).email)
    /\ pc = "returned"
    /\ responses = <<MissingFieldsResponse>>

\* C3 (under SpecFair): every request ends with exactly one response, of
\* status 400, 405, 500 or 200: there is never a second response, the handler
\* has returned exactly when the response is sent, no step is taken after
\* that, and every request gets there.
C3_ExactlyOneResponse ==
    /\ [](/\ Len(responses) <= 1
          /\ pc = "returned" <=> Len(responses) = 1
          /\ \A i \in DOMAIN responses : responses[i].status \in {400, 405, 500, 200})
    /\ [][pc # "returned"]_vars
    /\ <>(pc = "returned")

\* The email call threw, and the request has its one response.
C3_Witness ==
    /\ emailResult = Rejected
    /\ pc = "returned"
    /\ Len(responses) = 1

\* C4: when the model call throws, or resolves with a content that is no
\* JSON text (a non-empty text that JSON.parse rejects), the request is
\* answered 500 {"error":"Server error"} and the email call is never invoked.
C4_ModelFailureIs500 ==
    (modelResult = Rejected \/ ReplyUnparseable) =>
        /\ pc = "returned"
        /\ responses = <<ServerErrorResponse>>
        /\ emailCalls = <<>>

\* The model replied with a text that does not parse; the request has been
\* answered 500 without an email call.
C4_Witness ==
    /\ ReplyUnparseable
    /\ pc = "returned"
    /\ responses = <<ServerErrorResponse>>
    /\ emailCalls = <<>>

\* C5: when the email call returns an error object, the request is still
\* answered 200 {"ok": true}; the error is logged and nothing else.
C5_EmailErrorIs200 ==
    (emailResult.settled = "resolved" /\ Truthy(Get(emailResult.value, "error"))) =>
        /\ pc = "returned"
        /\ responses = <<OkResponse>>
        /\ "Resend email error:" \in Range(logs)

\* The provider reported a delivery failure and the request was answered 200.
C5_Witness ==
    /\ emailResult.settled = "resolved"
    /\ Truthy(Get(emailResult.value, "error"))
    /\ responses = <<OkResponse>>
    /\ logs = <<"Resend email error:">>

\* C6: a request whose email call has been invoked ends with 200
\* {"ok": true}, whatever the outcome of the email call; no request is
\* answered 500 after the email call has been invoked.
C6_SendingEndsIn200 ==
    (emailCalls # <<>> /\ pc = "returned") => responses = <<OkResponse>>

\* The defaults of an empty reply in the rendered email h.
DefaultsRendered(h) ==
    /\ h.confidence = <<"Medium">>
    /\ h.sellTime = <<"3<U+2013>9 months">>
    /\ "title" \in DOMAIN h => h.title = <<"Profitable business opportunity">>
    /\ h.low = <<"-">>
    /\ h.high = <<"-">>
    /\ h.rec = <<"-">>
    /\ h.notes = <<>>
    /\ h.improvement = <<>>

\* C7: when the model reply is {} (the business type of the request being a
\* text), the request is no error: the email is sent, with confidence
\* "Medium", sellTime "3-9 months" (en dash), title "Profitable business
\* opportunity", the three estimates "-", and notes and improvement ideas
\* empty; and the response is 200.
C7_EmptyReplyIsOk ==
    (ReplyEmptyObject /\ pc = "returned" /\ Fields(req).businessType.t = "string") =>
        /\ Len(emailCalls) = 1
        /\ DefaultsRendered(emailCalls[1].html)
        /\ responses = <<OkResponse>>

\* C8: a 200 response comes only after exactly one model call, resolved,
\* followed by exactly one email call, whose recipient list is the email of
\* the request body and whose sender and subject are the fixed ones.
C8_OkOnlyAfterBothCalls ==
    /\ emailCalls # <<>> => (Len(modelCalls) = 1 /\ modelResult.settled = "resolved")
    /\ (\E i \in DOMAIN responses : responses[i].status = 200) =>
          /\ Len(modelCalls) = 1
          /\ Len(emailCalls) = 1
          /\ emailResult.settled = "resolved"
          /\ emailCalls[1].to = <<Get(req.body, "email")>>
          /\ emailCalls[1].from = "BizTradeHub <onboarding@resend.dev>"
          /\ emailCalls[1].subject = "Your BizTradeHub business valuation estimate"

\* "Cafe in Bondi" for a@b.com: answered 200 after one model call and one
\* email to a@b.com.
C8_Witness ==
    /\ Get(req.body, "businessType") = Str(T_CafeInBondi)
    /\ responses = <<OkResponse>>
    /\ Len(modelCalls) = 1
    /\ Len(emailCalls) = 1
    /\ emailCalls[1].to = <<Str(<<"a@b.com">>)>>

(***************************************************************************)
(* The properties of inferCategory, checked under SpecCat.                 *)
(***************************************************************************)
FixedCategories ==
    {<<"c", "a", "f", "e">>, <<"r", "e", "s", "t", "a", "u", "r", "a", "n", "t">>,
     <<"r", "e", "t", "a", "i", "l">>, <<"s", "e", "r", "v", "i", "c", "e", "s">>,
     <<"t", "r", "a", "d", "e", "s">>, <<"b", "e", "a", "u", "t", "y">>,
     <<"f", "i", "t", "n", "e", "s", "s">>,
     <<"h", "e", "a", "l", "t", "h", "c", "a", "r", "e">>,
     <<"a", "u", "t", "o", "m", "o", "t", "i", "v", "e">>,
     <<"o", "n", "l", "i", "n", "e">>, <<"g", "e", "n", "e", "r", "i", "c">>}

\* C9 (under SpecCat): for a text, the empty text or an omitted argument,
\* every call of inferCategory returns, never throws, its value is one of
\* the eleven fixed categories, and two calls return the same value.
C9_InferCategoryTotal ==
    fin.t \in {"string", "undefined"} =>
        \A i \in DOMAIN fout :
            /\ fout[i].ok
            /\ fout[i].v.t = "string"
            /\ fout[i].v.s \in FixedCategories
            /\ fout[i] = fout[1]

\* inferCategory() was called twice without an argument.
C9_Witness ==
    /\ fin = Undef
    /\ Len(fout) = 2
    /\ fout[2] = Ok(Str(Cat_generic))

\* A keyword of the rule occurs in s as a substring.
KeywordOccurs(rule, s) ==
    \E k \in DOMAIN rule.alts :
        \E i \in 1..(Len(s) + 1) : MatchHere(rule.alts[k].pat, s, i)

\* The category of the first rule with a keyword occurring in s; generic
\* when there is none.
FirstKeywordRule(s) ==
    LET hits == {r \in DOMAIN Rules : KeywordOccurs(Rules[r], s)} IN
    IF hits = {} THEN Cat_generic
    ELSE Rules[CHOOSE r \in hits : \A r2 \in hits : r <= r2].cat

\* C10 (under SpecCat): inferCategory returns the category of the first rule,
\* in the order cafe, restaurant, retail, beauty, fitness, healthcare,
\* automotive, trades, online, services, that has a keyword occurring as a
\* substring of the lower-cased input, and generic when no rule has one.
C10_FirstSubstringRule ==
    fin.t = "string" =>
        \A i \in DOMAIN fout : fout[i] = Ok(Str(FirstKeywordRule(ToLowerCase(fin.s))))

(***************************************************************************)
(* The properties of what the handler renders, checked under Spec unless   *)
(* said otherwise.                                                         *)
(***************************************************************************)
\* The value JSON.parse gave the handler for the resolved model call.
ReplyData == ParseReply(modelResult.value).v

\* The category the precedence rule selects: the reply's imageCategory when,
\* lower-cased and trimmed, it is a fixed category; inferCategory of the
\* business type otherwise.
PrecedenceCategory(businessType, imageCategory) ==
    IF imageCategory.t = "string" /\ Trim(ToLowerCase(imageCategory.s)) \in FixedCategories
    THEN Trim(ToLowerCase(imageCategory.s))
    ELSE inferCategory(businessType).v.s

\* C11: in every email with a thumbnail, the thumbnail is that of the
\* reply's imageCategory when, lower-cased and trimmed, it is one of the
\* fixed categories, whatever inferCategory(businessType) returns; and that
\* of inferCategory(businessType) when imageCategory is absent, no string or
\* not in the fixed set.
C11_ImageCategoryFirst ==
    (HasListing(variant) /\ emailCalls # <<>>) =>
        emailCalls[1].html.thumb =
            thumbUrl(variant, PrecedenceCategory(Fields(req).businessType,
                                                 Get(ReplyData, "imageCategory")))

\* A number that is finite, or a text that denotes one.
ParsesFinite(v) ==
    \/ v.t = "number" /\ v.k = "finite"
    \/ v.t = "string" /\ Trim(v.s) # <<>> /\ StringToNumber(v.s).k = "finite"

\* C12 (under SpecAUD): formatAUD returns "-" for every value that is
\* missing or does not parse as a finite number (null, undefined, text that
\* is no number, the empty text, the infinities, values of other types), and
\* for every other value the number rounded to the nearest whole unit, its
\* digits grouped in thousands.
C12_PlaceholderOrGrouped ==
    \A i \in DOMAIN fout :
        fout[i] = Ok(IF ParsesFinite(fin) THEN RoundedLocale(ToNumberJS(fin).v)
                     ELSE <<"-">>)

\* C13: the confidence rendered in an email is always "Low", "Medium" or
\* "High": a reply's confidence that is absent or outside that set is
\* rendered as "Medium".
C13_ConfidenceInSet ==
    \A i \in DOMAIN emailCalls :
        emailCalls[i].html.confidence \in {<<"Low">>, <<"Medium">>, <<"High">>}

\* A text that is not empty and denotes no number.
NonNumericText(x) ==
    x.t = "string" /\ x.s # <<>> /\ StringToNumber(x.s).k = "NaN"

\* C14: a POST request whose annualProfit is present and no usable number,
\* such as a text that denotes none, is answered 400 and neither external
\* call is invoked, as for a missing or empty annualProfit.
C14_NonNumericProfitIs400 ==
    (req.method = "POST" /\ NonNumericText(Fields(req).annualProfit)) =>
        /\ modelCalls = <<>>
        /\ emailCalls = <<>>
        /\ pc \in {"start", "returned"}
        /\ pc = "returned" => responses = <<MissingFieldsResponse>>

\* The model call resolved with a content that parses as a JSON object.
ReplyIsObject ==
    /\ modelResult.settled = "resolved"
    /\ ParseReply(modelResult.value).ok
    /\ ReplyData.t = "object"

\* C15: when the model reply parses as a JSON object, whatever the types of
\* its fields, the request goes on to the email call and is answered 200
\* (the business type being a text and the email call returning): a field of
\* the wrong type never gives a 500.
C15_MistypedFieldIsDefaulted ==
    (/\ ReplyIsObject
     /\ Fields(req).businessType.t = "string"
     /\ emailResult # Rejected
     /\ pc = "returned") =>
        /\ Len(emailCalls) = 1
        /\ responses = <<OkResponse>>

\* The list the cap of 3 renders for a reply's listingBullets: nothing when
\* it is no array, and the first min(n, 3) entries in order otherwise.
CappedList(listingBullets) ==
    IF listingBullets.t # "array" THEN <<>>
    ELSE ListBlock(ListItems(SubSeq(listingBullets.a, 1,
                                    IF Len(listingBullets.a) < 3
                                    THEN Len(listingBullets.a) ELSE 3)).v)

\* C16: in every email with a listing, the bullets rendered are none (no
\* item, no wrapper) when the reply's listingBullets is no array, and
\* otherwise exactly its first min(n, 3) entries in order, one item each, in
\* every handler that renders bullets.
C16_BulletsCappedAt3 ==
    (HasListing(variant) /\ emailCalls # <<>>) =>
        emailCalls[1].html.bullets = CappedList(Get(ReplyData, "listingBullets"))

\* C17: within one request the model call is invoked at most once and the
\* email call at most once, and the email call is invoked only after the
\* model call has returned and its reply has been parsed and rendered: the
\* email carries the rendering of that reply.
C17_CallsSequentialOnce ==
    /\ Len(modelCalls) <= 1
    /\ Len(emailCalls) <= 1
    /\ pc = "awaitEmail" => Len(emailCalls) = 1
    /\ emailCalls # <<>> =>
          /\ Len(modelCalls) = 1
          /\ modelResult.settled = "resolved"
          /\ ParseReply(modelResult.value).ok
          /\ Render(variant, Fields(req), ReplyData).ok
          /\ emailCalls[1].html = Render(variant, Fields(req), ReplyData).v

\* The email call is in flight, after the one model call has returned.
C17_Witness ==
    /\ pc = "awaitEmail"
    /\ Len(modelCalls) = 1
    /\ Len(emailCalls) = 1
    /\ modelResult.settled = "resolved"
    /\ emailResult = Pending

\* C18: when the model reply is valid JSON and no JSON object (an array, a
\* number, a string, true, false, null), the request is answered 500
\* {"error":"Server error"} and the email call is not invoked.
C18_NonObjectReplyIs500 ==
    (/\ modelResult.settled = "resolved"
     /\ ParseReply(modelResult.value).ok
     /\ ReplyData.t # "object") =>
        /\ pc = "returned"
        /\ responses = <<ServerErrorResponse>>
        /\ emailCalls = <<>>

\* C19: for a request that passed validation and whose model reply parses
\* (here the reply {}, which has no field to fail on), whatever its business
\* type, one category is selected and the email is sent with that category's
\* thumbnail, one of the eleven references, distinct categories having
\* distinct references: category selection never fails the request.
C19_CategoryNeverFails ==
    (ReplyEmptyObject /\ HasListing(variant)) =>
        /\ Len(emailCalls) = 1
        /\ \E c \in FixedCategories : emailCalls[1].html.thumb = categoryImages(variant)[c]
        /\ \A c1, c2 \in FixedCategories :
              c1 # c2 => categoryImages(variant)[c1] # categoryImages(variant)[c2]

(***************************************************************************)
(* Independence of the requests in flight, checked under SpecMulti.        *)
(***************************************************************************)
\* What the invocation f would be had it run alone from its request, with
\* the results its own external calls have had so far.
Alone(v, f) ==
    IF f.pc = "start" THEN NewFlight(f.req)
    ELSE LET a == After(NewFlight(f.req), Start(v, f.req)) IN
         IF a.pc # "awaitModel" \/ f.modelResult = Pending THEN a
         ELSE LET b == After([a EXCEPT !.modelResult = f.modelResult],
                             OnModel(v, f.req, f.modelResult))
              IN  IF b.pc # "awaitEmail" \/ f.emailResult = Pending THEN b
                  ELSE After([b EXCEPT !.emailResult = f.emailResult],
                             OnEmail(v, f.req, f.emailResult))

\* C20 (under SpecMulti): with several requests in flight and any
\* interleaving of their steps, the responses, the logged lines and the
\* arguments of the model and email calls of each request are those of the
\* request run alone on its own input with its own call results: no step
\* of one request changes or depends on another's state.
C20_RequestsIndependent ==
    /\ [](\A i \in DOMAIN inflight : inflight[i] = Alone(variant, inflight[i]))
    /\ [][\A i \in DOMAIN inflight :
              inflight'[i] # inflight[i] =>
                  \A j \in DOMAIN inflight \ {i} : inflight'[j] = inflight[j]]_vars

\* Two different requests are in flight, one awaiting its email call and
\* the other its model call.
C20_Witness ==
    /\ inflight # <<>>
    /\ inflight[1].pc = "awaitEmail"
    /\ inflight[2].pc = "awaitModel"
    /\ inflight[1].req # inflight[2].req

(***************************************************************************)
(* Validation and progress, checked under Spec.                            *)
(***************************************************************************)
NonEmptyText(x) == x.t = "string" /\ x.s # <<>>

\* C21: a POST request with a non-empty businessType, a non-empty email and
\* a numeric annualProfit, 0 included, is never answered 400: it passes
\* validation and, its prompt built, goes on to the model call.
C21_ValidRequestPasses ==
    (/\ req.method = "POST"
     /\ NonEmptyText(Fields(req).businessType)
     /\ NonEmptyText(Fields(req).email)
     /\ Fields(req).annualProfit.t = "number"
     /\ Fields(req).annualProfit.k = "finite"
     /\ pc # "start") =>
        /\ \A i \in DOMAIN responses : responses[i].status # 400
        /\ BuildPrompt(variant, Fields(req)).ok => Len(modelCalls) = 1

\* C22: a 405 or a 400 is sent only when no external call has been invoked,
\* and a 500 only after the model call has been invoked: nothing before the
\* model call (reading the body, validation, prompt building) gives a 500.
C22_StatusFollowsProgress ==
    \A i \in DOMAIN responses :
        /\ responses[i].status \in {400, 405} => (modelCalls = <<>> /\ emailCalls = <<>>)
        /\ responses[i].status = 500 => Len(modelCalls) = 1

\* The model call resolved with a message whose content is empty or absent.
ReplyContentEmpty ==
    /\ modelResult.settled = "resolved"
    /\ ReplyContent.ok
    /\ ~Truthy(ReplyContent.v)

\* C23: when the model call returns with empty or absent message content
\* (the business type of the request being a text), the reply is taken as
\* {}: the request does not fail, one email is sent in which every field of
\* the reply takes its default, and the response is 200.
C23_EmptyContentIsEmptyObject ==
    (ReplyContentEmpty /\ pc = "returned" /\ Fields(req).businessType.t = "string") =>
        /\ Len(emailCalls) = 1
        /\ DefaultsRendered(emailCalls[1].html)
        /\ emailCalls[1].html.multiple = <<"-">>
        /\ responses = <<OkResponse>>

(***************************************************************************)
(* The three variants against each other, checked under Spec.              *)
(***************************************************************************)
\* The request of the current state as an invocation: where it is, and the
\* results its external calls have had.
ThisFlight ==
    [NewFlight(req) EXCEPT !.pc = pc, !.modelResult = modelResult,
                           !.emailResult = emailResult]

\* What a caller and the two providers observe of an invocation: the
\* responses, and how many times each external call was invoked.
ControlFlow(f) ==
    [responses |-> f.responses, model |-> Len(f.modelCalls), email |-> Len(f.emailCalls)]

\* C24: on the same request and the same outcomes of the model call and the
\* email call, the three handler variants send the same responses (status
\* and body) and invoke the same external calls.
C24_VariantsEquivalent ==
    \A v \in Variants :
        ControlFlow(Alone(v, ThisFlight)) =
            [responses |-> responses, model |-> Len(modelCalls), email |-> Len(emailCalls)]
====
